---- MODULE Spec2Model ----
(***************************************************************************)
(* Model of service-audio-feedback: the pronunciation evaluator            *)
(* (routers/utils/evaluator.py: SequenceAligner, PronunciationEvaluator),  *)
(* the reference lookup (routers/utils/texts.py) and the request handler   *)
(* create_feedback (routers/feedback.py) with its response schema          *)
(* (schemas/feedback.py).                                                  *)
(*                                                                         *)
(* A str is a sequence of one-character strings; a phoneme token is a      *)
(* non-empty str without blanks; a phonetic record is a sequence of        *)
(* tokens.  A float accuracy is kept in hundredths of a percent (an        *)
(* integer): round(x, 2) is exact to that unit.                            *)
(***************************************************************************)
EXTENDS Integers, Sequences, FiniteSets, TLC

VARIABLES
    pc,           \* position of the modelled caller / handler
    reference,    \* PronunciationEvaluator.reference == SequenceAligner.reference
    actual,       \* PronunciationEvaluator.actual == SequenceAligner.actual
    dimension_x,  \* SequenceAligner.dimension_x
    dimension_y,  \* SequenceAligner.dimension_y
    alignment,    \* value returned by the last get_align()
    mistakes,     \* PronunciationEvaluator.mistakes
    matches,      \* PronunciationEvaluator.matches
    reports,      \* Feedback dicts returned by compare(), oldest first
    raised,       \* exception that left the last call, "none" if it returned
    request,      \* create_feedback: data.actual_result of the request in flight
    upstream,     \* create_feedback: what the text service lookup ended with
    evaluated,    \* create_feedback: PronunciationEvaluator was constructed
    response,     \* create_feedback: the FeedbackResponse sent back
    calls         \* number of compare() calls made on the evaluator

vars == <<pc, reference, actual, dimension_x, dimension_y, alignment, mistakes,
          matches, reports, raised, request, upstream, evaluated, response, calls>>

----------------------------------------------------------------------------
(* Bounds *)

MaxTokens == 4

MaxCalls == 2

(* Phoneme tokens of the bounded inputs: one of one character, one of two. *)
Phonemes == {<<"a">>, <<"a", "b">>}

(* Token lists given to a SequenceAligner. *)
TokenSeqs == UNION {[1..k -> Phonemes] : k \in 0..MaxTokens}

(* Blank runs between tokens, and at either end of a string. *)
Separators == {<<" ">>, <<" ", " ">>}

Pads == {<<>>, <<" ">>}

RECURSIVE Join(_, _)
Join(ws, sep) ==
    IF ws = <<>> THEN <<>>
    ELSE IF Len(ws) = 1 THEN ws[1]
    ELSE ws[1] \o sep \o Join(Tail(ws), sep)

(* Input strings: up to MaxTokens tokens, blank runs between and around. *)
Strings ==
    {lead \o Join(ws, sep) \o trail :
        ws \in TokenSeqs, sep \in Separators, lead \in Pads, trail \in Pads}

----------------------------------------------------------------------------
(* Python helpers *)

Abs(x) == IF x < 0 THEN -x ELSE x

Min3(a, b, c) == IF a <= b /\ a <= c THEN a ELSE IF b <= c THEN b ELSE c

RECURSIVE Reverse(_)
Reverse(s) == IF s = <<>> THEN <<>> ELSE Append(Reverse(Tail(s)), Head(s))

(* str.split(): cut at runs of blanks, no empty tokens. *)
RECURSIVE SplitFrom(_, _, _, _)
SplitFrom(s, k, cur, acc) ==
    IF k > Len(s)
    THEN IF cur = <<>> THEN acc ELSE Append(acc, cur)
    ELSE IF s[k] = " "
         THEN SplitFrom(s, k + 1, <<>>, IF cur = <<>> THEN acc ELSE Append(acc, cur))
         ELSE SplitFrom(s, k + 1, Append(cur, s[k]), acc)

Split(s) == SplitFrom(s, 1, <<>>, <<>>)

(* round(num / den, 0) of a non-negative quotient, ties to even. *)
RoundHalfEven(num, den) ==
    LET q == num \div den
        r == num % den
    IN  IF 2 * r > den \/ (2 * r = den /\ q % 2 = 1) THEN q + 1 ELSE q

----------------------------------------------------------------------------
(* CompareType *)

REPLACEMENT == "Replacement"
INSERTION == "Insertion"
DELETION == "Deletion"
MATCH == "Match"

----------------------------------------------------------------------------
(* SequenceAligner.  A DP table is a function [0..N -> [0..M -> Int]].      *)

(* InitializeDpTable leaving row 0 at zero: leading insertions are free. *)
InitializeDpTableZeroRow(dx, dy) ==
    [i \in 0..dx |-> [j \in 0..dy |-> IF j = 0 THEN i ELSE 0]]

InitializeDpTable(dx, dy) ==
    [i \in 0..dx |-> [j \in 0..dy |-> IF i = 0 THEN j ELSE IF j = 0 THEN i ELSE 0]]

(* CellCost with the diagonal move always charged 1. *)
CellCostNoMatch(ref, act, dpt, i, j) ==
    Min3(dpt[i - 1][j - 1] + 1, dpt[i - 1][j] + 1, dpt[i][j - 1] + 1)

CellCost(ref, act, dpt, i, j) ==
    LET match_cost == IF ref[i] = act[j] THEN 0 ELSE 1
        match == dpt[i - 1][j - 1] + match_cost
        delete == dpt[i - 1][j] + 1
        insert == dpt[i][j - 1] + 1
    IN  Min3(match, delete, insert)

(* The two nested loops of _fill_dp_table, cell (i, j) next. *)
RECURSIVE FillFrom(_, _, _, _, _, _, _)
FillFrom(ref, act, dx, dy, dpt, i, j) ==
    IF i > dx THEN dpt
    ELSE IF j > dy THEN FillFrom(ref, act, dx, dy, dpt, i + 1, 1)
    ELSE FillFrom(ref, act, dx, dy,
                  [dpt EXCEPT ![i][j] = CellCost(ref, act, dpt, i, j)], i, j + 1)

FillDpTable(ref, act, dx, dy, dpt) == FillFrom(ref, act, dx, dy, dpt, 1, 1)

(* dp[i][j] with Python's index rule for a list of dy + 1 cells: a negative *)
(* j counts from the end; outside -(dy+1)..dy the read is an IndexError.    *)
InRange(dy, j) == j >= -(dy + 1) /\ j <= dy

At(dp, dy, i, j) == dp[i][IF j < 0 THEN j + dy + 1 ELSE j]

IsMatch(ref, act, dp, i, j) ==
    IF i <= 0 \/ j <= 0 THEN FALSE
    ELSE ref[i] = act[j] /\ dp[i][j] = dp[i - 1][j - 1]

IsReplacement(ref, act, dp, i, j) ==
    IF i <= 0 \/ j <= 0 THEN FALSE
    ELSE ref[i] # act[j] /\ dp[i][j] = dp[i - 1][j - 1] + 1

(* IsDeletion that also asks for a column left of the cursor. *)
IsDeletionInner(dp, dy, i, j) ==
    i > 0 /\ j > 0 /\ dp[i][j] = dp[i - 1][j] + 1

IsDeletion(dp, dy, i, j) ==
    i > 0 /\ At(dp, dy, i, j) = At(dp, dy, i - 1, j) + 1

(* The while loop of _traceback_alignment at cursors (i, j).  The result    *)
(* records the reversed list, the cursors the loop ended at, the lowest     *)
(* value a cursor took, and the exception if a table read was out of range. *)
RECURSIVE TracebackFrom(_, _, _, _, _, _, _, _)
TracebackFrom(ref, act, dp, dy, i, j, acc, low) ==
    LET seen == Min3(low, i, j)
    IN  IF ~(i > 0 \/ j > 0)
        THEN [alignment |-> Reverse(acc), i |-> i, j |-> j, low |-> seen,
              raised |-> "none"]
        ELSE IF IsMatch(ref, act, dp, i, j)
        THEN TracebackFrom(ref, act, dp, dy, i - 1, j - 1, Append(acc, MATCH), seen)
        ELSE IF IsReplacement(ref, act, dp, i, j)
        THEN TracebackFrom(ref, act, dp, dy, i - 1, j - 1, Append(acc, REPLACEMENT), seen)
        ELSE IF i > 0 /\ ~InRange(dy, j)
        THEN [alignment |-> <<>>, i |-> i, j |-> j, low |-> seen,
              raised |-> "IndexError"]
        ELSE IF IsDeletion(dp, dy, i, j)
        THEN TracebackFrom(ref, act, dp, dy, i - 1, j, Append(acc, DELETION), seen)
        ELSE TracebackFrom(ref, act, dp, dy, i, j - 1, Append(acc, INSERTION), seen)

(* TracebackAlignment returning the list as collected, end to start. *)
TracebackNotReversed(ref, act, dx, dy, dp) ==
    LET t == TracebackFrom(ref, act, dp, dy, dx, dy, <<>>, 0)
    IN  [t EXCEPT !.alignment = Reverse(@)]

TracebackAlignment(ref, act, dx, dy, dp) ==
    TracebackFrom(ref, act, dp, dy, dx, dy, <<>>, 0)

(* get_align(): the dimensions it stores and what the traceback returns. *)
GetAlign(ref, act) ==
    LET dx == Len(ref)
        dy == Len(act)
        dpt == FillDpTable(ref, act, dx, dy, InitializeDpTable(dx, dy))
    IN  [dimension_x |-> dx, dimension_y |-> dy, dpt |-> dpt,
         trace |-> TracebackAlignment(ref, act, dx, dy, dpt)]

----------------------------------------------------------------------------
(* PronunciationEvaluator.  Python values carry their type in `kind`.       *)

None == [kind |-> "None"]

Phoneme(position, value) == [kind |-> "dict", position |-> position, value |-> value]

(* _construct_error reads reference[ref_pos] and actual[act_pos]. *)
CanConstruct(ref, act, ref_pos, act_pos, cmp_type) ==
    /\ cmp_type # INSERTION => ref_pos < Len(ref)
    /\ cmp_type # DELETION => act_pos < Len(act)

(* ConstructError numbering the reference phoneme by the actual cursor. *)
ConstructErrorOneCursor(ref, act, ref_pos, act_pos, cmp_type) ==
    [reference |-> IF cmp_type # INSERTION
                   THEN Phoneme(act_pos, ref[ref_pos + 1]) ELSE None,
     actual |-> IF cmp_type # DELETION
                THEN Phoneme(act_pos, act[act_pos + 1]) ELSE None,
     type |-> cmp_type]

ConstructError(ref, act, ref_pos, act_pos, cmp_type) ==
    [reference |-> IF cmp_type # INSERTION
                   THEN Phoneme(ref_pos, ref[ref_pos + 1]) ELSE None,
     actual |-> IF cmp_type # DELETION
                THEN Phoneme(act_pos, act[act_pos + 1]) ELSE None,
     type |-> cmp_type]

(* The for loop of _check_mistakes at operation k, appending to the         *)
(* instance's mistakes (ms) and adding to its matches (mt).                 *)
RECURSIVE CheckFrom(_, _, _, _, _, _, _, _)
CheckFrom(ref, act, ops, k, ref_pos, act_pos, ms, mt) ==
    IF k > Len(ops)
    THEN [mistakes |-> ms, matches |-> mt, raised |-> "none"]
    ELSE LET compare_type == ops[k]
             ref_next == IF compare_type = INSERTION THEN ref_pos ELSE ref_pos + 1
             act_next == IF compare_type = DELETION THEN act_pos ELSE act_pos + 1
         IN  IF compare_type = MATCH
             THEN CheckFrom(ref, act, ops, k + 1, ref_next, act_next, ms, mt + 1)
             ELSE IF ~CanConstruct(ref, act, ref_pos, act_pos, compare_type)
             THEN [mistakes |-> ms, matches |-> mt, raised |-> "IndexError"]
             ELSE CheckFrom(ref, act, ops, k + 1, ref_next, act_next,
                            Append(ms, ConstructError(ref, act, ref_pos, act_pos,
                                                      compare_type)), mt)

CheckMistakes(ref, act, sequences_aligment, ms, mt) ==
    CheckFrom(ref, act, sequences_aligment, 1, 0, 0, ms, mt)

(* _calculate_accuracy for len(reference) > 0, in hundredths of a percent:  *)
(* matches / (len_ref * (1 + |len_ref - len_act| / len_ref)) * 100, round 2 *)
(* CalculateAccuracy multiplying by the fine instead of dividing by it. *)
CalculateAccuracyFineTimes(len_ref, len_act, mt) ==
    RoundHalfEven(mt * (len_ref + Abs(len_ref - len_act)) * 10000, len_ref * len_ref)

CalculateAccuracy(len_ref, len_act, mt) ==
    RoundHalfEven(mt * 10000, len_ref + Abs(len_ref - len_act))

(* compare() on an instance whose fields are (ref, act, ms, mt): the fields *)
(* it leaves behind, and the Feedback it returns or the exception it raises.*)
Compare(ref, act, ms, mt) ==
    LET al == GetAlign(ref, act)
        cm == CheckMistakes(ref, act, al.trace.alignment, ms, mt)
        base == [dimension_x |-> al.dimension_x, dimension_y |-> al.dimension_y,
                 alignment |-> al.trace.alignment]
    IN  IF al.trace.raised # "none"
        THEN base @@ [mistakes |-> ms, matches |-> mt, raised |-> al.trace.raised,
                      accuracy |-> 0]
        ELSE IF cm.raised # "none"
        THEN base @@ [mistakes |-> cm.mistakes, matches |-> cm.matches,
                      raised |-> cm.raised, accuracy |-> 0]
        ELSE IF Len(ref) = 0
        THEN base @@ [mistakes |-> cm.mistakes, matches |-> cm.matches,
                      raised |-> "ZeroDivisionError", accuracy |-> 0]
        ELSE base @@ [mistakes |-> cm.mistakes, matches |-> cm.matches,
                      raised |-> "none",
                      accuracy |-> CalculateAccuracy(Len(ref), Len(act), cm.matches)]

(* Feedback(accuracy=accuracy, mistakes=self.mistakes): the dict holds the  *)
(* instance's list itself, so every Feedback returned so far shows the list *)
(* as it is now.                                                            *)
Aliased(rs, ms) == [k \in 1..Len(rs) |-> [rs[k] EXCEPT !.mistakes = ms]]

----------------------------------------------------------------------------
(* SpecAligner: a SequenceAligner on two token lists, and get_align().      *)

NoLookup == [kind |-> "none", body |-> "none"]

Idle ==
    /\ mistakes = <<>> /\ matches = 0 /\ reports = <<>> /\ raised = "none"
    /\ request = <<>> /\ upstream = NoLookup /\ evaluated = FALSE
    /\ response = None /\ calls = 0
    /\ dimension_x = 0 /\ dimension_y = 0 /\ alignment = <<>>

InitAligner ==
    /\ pc = "aligner"
    /\ reference \in TokenSeqs
    /\ actual \in TokenSeqs
    /\ Idle

GetAlignCall ==
    /\ pc = "aligner"
    /\ LET al == GetAlign(reference, actual)
       IN  /\ dimension_x' = al.dimension_x
           /\ dimension_y' = al.dimension_y
           /\ alignment' = al.trace.alignment
           /\ raised' = al.trace.raised
    /\ pc' = "aligned"
    /\ UNCHANGED <<reference, actual, mistakes, matches, reports, request,
                   upstream, evaluated, response, calls>>

NextAligner == GetAlignCall

SpecAligner == InitAligner /\ [][NextAligner]_vars

----------------------------------------------------------------------------
(* SpecEvaluator: PronunciationEvaluator(reference, actual) on two strings, *)
(* then compare() on that instance, up to MaxCalls times.                   *)

TokenLists == {Split(s) : s \in Strings}

InitEvaluator ==
    /\ pc = "evaluator"
    /\ reference \in TokenLists
    /\ actual \in TokenLists
    /\ Idle

CompareReturns ==
    /\ pc = "evaluator"
    /\ calls < MaxCalls
    /\ LET c == Compare(reference, actual, mistakes, matches)
       IN  /\ c.raised = "none"
           /\ dimension_x' = c.dimension_x
           /\ dimension_y' = c.dimension_y
           /\ alignment' = c.alignment
           /\ mistakes' = c.mistakes
           /\ matches' = c.matches
           /\ reports' = Append(Aliased(reports, c.mistakes),
                                [accuracy |-> c.accuracy, mistakes |-> c.mistakes])
    /\ raised' = "none"
    /\ calls' = calls + 1
    /\ UNCHANGED <<pc, reference, actual, request, upstream, evaluated, response>>

CompareRaises ==
    /\ pc = "evaluator"
    /\ calls < MaxCalls
    /\ LET c == Compare(reference, actual, mistakes, matches)
       IN  /\ c.raised # "none"
           /\ dimension_x' = c.dimension_x
           /\ dimension_y' = c.dimension_y
           /\ alignment' = c.alignment
           /\ mistakes' = c.mistakes
           /\ matches' = c.matches
           /\ reports' = Aliased(reports, c.mistakes)
           /\ raised' = c.raised
    /\ calls' = calls + 1
    /\ UNCHANGED <<pc, reference, actual, request, upstream, evaluated, response>>

NextEvaluator == CompareReturns \/ CompareRaises

SpecEvaluator == InitEvaluator /\ [][NextEvaluator]_vars

----------------------------------------------------------------------------
(* Spec: one request through create_feedback.  The handler runs up to the   *)
(* await of the text service's answer, and on the answer runs to its end.   *)

(* schemas.feedback.PhoneticMistake: position: int, reference: str | None,  *)
(* actual: str | None, type: str, every key required.                       *)
SchemaPhoneticMistake(m) ==
    /\ "position" \in DOMAIN m
    /\ m.position \in Int
    /\ m.reference.kind \in {"str", "None"}
    /\ m.actual.kind \in {"str", "None"}
    /\ m.type \in {REPLACEMENT, INSERTION, DELETION, MATCH}

(* FeedbackResponse.model_validate(feedback): accuracy ge=0.0, le=100.0. *)
ModelValidate(feedback) ==
    /\ feedback.accuracy >= 0
    /\ feedback.accuracy <= 10000
    /\ \A k \in 1..Len(feedback.mistakes) : SchemaPhoneticMistake(feedback.mistakes[k])

Init ==
    /\ pc = "idle"
    /\ reference = <<>>
    /\ actual = <<>>
    /\ Idle

ReceiveRequest ==
    /\ pc = "idle"
    /\ \E actual_result \in Strings : request' = actual_result
    /\ pc' = "lookup"
    /\ UNCHANGED <<reference, actual, dimension_x, dimension_y, alignment, mistakes,
                   matches, reports, raised, upstream, evaluated, response, calls>>

(* client.get raises (no connection, timeout): not an HTTPStatusError. *)
LookupTransportError ==
    /\ pc = "lookup"
    /\ upstream' = [kind |-> "transport_error", body |-> "none"]
    /\ raised' = "RequestError"
    /\ pc' = "failed"
    /\ UNCHANGED <<reference, actual, dimension_x, dimension_y, alignment, mistakes,
                   matches, reports, request, evaluated, response, calls>>

(* raise_for_status raises; the handler reads detail from the error body. *)
LookupStatusError ==
    /\ pc = "lookup"
    /\ \E body \in {"detail", "no_detail", "not_json"} :
          /\ upstream' = [kind |-> "status_error", body |-> body]
          /\ raised' = IF body = "not_json" THEN "JSONDecodeError" ELSE "HTTPException"
    /\ pc' = "failed"
    /\ UNCHANGED <<reference, actual, dimension_x, dimension_y, alignment, mistakes,
                   matches, reports, request, evaluated, response, calls>>

(* A success status whose body is not JSON or has no "transcription". *)
LookupBadBody ==
    /\ pc = "lookup"
    /\ \E body \in {"no_transcription", "not_json"} :
          /\ upstream' = [kind |-> "bad_body", body |-> body]
          /\ raised' = IF body = "not_json" THEN "JSONDecodeError" ELSE "KeyError"
    /\ pc' = "failed"
    /\ UNCHANGED <<reference, actual, dimension_x, dimension_y, alignment, mistakes,
                   matches, reports, request, evaluated, response, calls>>

(* The transcription arrives: evaluator constructed, compare(), validation. *)
LookupReturns ==
    /\ pc = "lookup"
    /\ \E transcription \in Strings :
          LET ref == Split(transcription)
              act == Split(request)
              c == Compare(ref, act, <<>>, 0)
              feedback == [accuracy |-> c.accuracy, mistakes |-> c.mistakes]
          IN  /\ upstream' = [kind |-> "ok", body |-> "transcription"]
              /\ reference' = ref
              /\ actual' = act
              /\ evaluated' = TRUE
              /\ calls' = 1
              /\ dimension_x' = c.dimension_x
              /\ dimension_y' = c.dimension_y
              /\ alignment' = c.alignment
              /\ mistakes' = c.mistakes
              /\ matches' = c.matches
              /\ IF c.raised # "none"
                 THEN /\ reports' = <<>>
                      /\ raised' = c.raised
                      /\ response' = None
                      /\ pc' = "failed"
                 ELSE IF ~ModelValidate(feedback)
                 THEN /\ reports' = <<feedback>>
                      /\ raised' = "ValidationError"
                      /\ response' = None
                      /\ pc' = "failed"
                 ELSE /\ reports' = <<feedback>>
                      /\ raised' = "none"
                      /\ response' = feedback
                      /\ pc' = "returned"
    /\ UNCHANGED request

Next ==
    \/ ReceiveRequest
    \/ LookupTransportError
    \/ LookupStatusError
    \/ LookupBadBody
    \/ LookupReturns

Spec == Init /\ [][Next]_vars

----------------------------------------------------------------------------
(* Properties of SequenceAligner (SpecAligner)                              *)

Count(ops, kinds) == Cardinality({k \in 1..Len(ops) : ops[k] \in kinds})

Kinds(ops) == {ops[k] : k \in 1..Len(ops)}

(* Unit-cost edit distance, by recursion on the suffixes a[i..], b[j..]. *)
Levenshtein(a, b) ==
    LET n == Len(a)
        m == Len(b)
        d[i \in 1..n + 1, j \in 1..m + 1] ==
            IF i = n + 1 THEN m + 1 - j
            ELSE IF j = m + 1 THEN n + 1 - i
            ELSE Min3(d[i + 1, j + 1] + (IF a[i] = b[j] THEN 0 ELSE 1),
                      d[i + 1, j] + 1,
                      d[i, j + 1] + 1)
    IN  d[1, 1]

(* The traceback as specified: first applicable of Match, Replacement (any  *)
(* diagonal of cost 1), Deletion, Insertion; collected end to start.        *)
RECURSIVE SpecifiedFrom(_, _, _, _, _)
SpecifiedFrom(ref, act, T, i, j) ==
    IF i = 0 /\ j = 0 THEN <<>>
    ELSE IF i > 0 /\ j > 0 /\ ref[i] = act[j] /\ T[i][j] = T[i - 1][j - 1]
    THEN Append(SpecifiedFrom(ref, act, T, i - 1, j - 1), MATCH)
    ELSE IF i > 0 /\ j > 0 /\ T[i][j] = T[i - 1][j - 1] + 1
    THEN Append(SpecifiedFrom(ref, act, T, i - 1, j - 1), REPLACEMENT)
    ELSE IF i > 0 /\ T[i][j] = T[i - 1][j] + 1
    THEN Append(SpecifiedFrom(ref, act, T, i - 1, j), DELETION)
    ELSE IF j > 0
    THEN Append(SpecifiedFrom(ref, act, T, i, j - 1), INSERTION)
    ELSE <<"stuck">>

SpecifiedTraceback(ref, act) ==
    SpecifiedFrom(ref, act, GetAlign(ref, act).dpt, Len(ref), Len(act))

Aligned == pc = "aligned"

(* C2: for a reference of at least one token, the alignment get_align       *)
(* returned has as many non-Match operations as the unit-cost edit distance *)
(* of the two token lists, and that number is the table's cell T[N][M].     *)
C2_EditDistance ==
    (Aligned /\ Len(reference) >= 1) =>
        /\ raised = "none"
        /\ Count(alignment, {REPLACEMENT, INSERTION, DELETION})
               = Levenshtein(reference, actual)
        /\ GetAlign(reference, actual).dpt[Len(reference)][Len(actual)]
               = Levenshtein(reference, actual)

C2_Witness ==
    /\ Aligned
    /\ Len(reference) >= 2
    /\ Len(actual) >= 2
    /\ Len(reference) # Len(actual)
    /\ Count(alignment, {REPLACEMENT, INSERTION, DELETION}) >= 2
    /\ MATCH \in Kinds(alignment)

(* C3: the operations get_align returned advance the reference cursor       *)
(* exactly N times and the actual cursor exactly M times; the traceback     *)
(* ends at (0, 0) and no cursor is ever negative.                           *)
C3_CursorCounts ==
    Aligned =>
        /\ raised = "none"
        /\ Count(alignment, {MATCH, REPLACEMENT, DELETION}) = Len(reference)
        /\ Count(alignment, {MATCH, REPLACEMENT, INSERTION}) = Len(actual)
        /\ LET t == GetAlign(reference, actual).trace
           IN  t.i = 0 /\ t.j = 0 /\ t.low >= 0

C3_Witness ==
    /\ Aligned
    /\ Len(reference) > Len(actual)
    /\ Len(actual) > 0
    /\ DELETION \in Kinds(alignment)
    /\ alignment[1] = DELETION

(* C4: get_align returns exactly the operations of the specified traceback, *)
(* in start-to-end order; the Replacement test's extra token comparison     *)
(* changes no choice.                                                       *)
C4_SpecifiedTraceback ==
    Aligned => alignment = SpecifiedTraceback(reference, actual)

C4_Witness ==
    /\ Aligned
    /\ REPLACEMENT \in Kinds(alignment)
    /\ DELETION \in Kinds(alignment)
    /\ alignment # Reverse(alignment)

----------------------------------------------------------------------------
(* Properties of PronunciationEvaluator (SpecEvaluator)                     *)

NonMatch == {REPLACEMENT, INSERTION, DELETION}

(* Index in ops of its k-th operation that is not a Match. *)
NthNonMatch(ops, k) ==
    CHOOSE idx \in 1..Len(ops) :
        ops[idx] \in NonMatch /\ Count(SubSeq(ops, 1, idx), NonMatch) = k

(* The record the k-th non-Match operation of ops stands for. *)
ExpectedMistake(ref, act, ops, k) ==
    LET idx == NthNonMatch(ops, k)
        before == SubSeq(ops, 1, idx - 1)
        ref_pos == Count(before, {MATCH, REPLACEMENT, DELETION})
        act_pos == Count(before, {MATCH, REPLACEMENT, INSERTION})
    IN  [reference |-> IF ops[idx] \in {REPLACEMENT, DELETION}
                       THEN [kind |-> "dict", position |-> ref_pos,
                             value |-> ref[ref_pos + 1]]
                       ELSE [kind |-> "None"],
         actual |-> IF ops[idx] \in {REPLACEMENT, INSERTION}
                    THEN [kind |-> "dict", position |-> act_pos,
                          value |-> act[act_pos + 1]]
                    ELSE [kind |-> "None"],
         type |-> ops[idx]]

FirstCall == pc = "evaluator" /\ calls = 1

Distance(a, b) == Len(a) + Abs(Len(a) - Len(b))

(* C1: compare() on a reference without tokens fails with InvalidInput      *)
(* rather than reaching the division by len(reference).                     *)
C1_InvalidInput ==
    (pc = "evaluator" /\ calls >= 1 /\ reference = <<>>) => raised = "InvalidInput"

(* C5: in a single evaluation of a non-empty reference, mistakes holds one  *)
(* record per non-Match operation in alignment order; each has the          *)
(* operation's kind (never Match), the reference phoneme at the reference   *)
(* cursor unless an Insertion, the actual phoneme at the actual cursor      *)
(* unless a Deletion, both cursors inside their lists.                      *)
C5_MistakeRecords ==
    (FirstCall /\ Len(reference) >= 1) =>
        /\ raised = "none"
        /\ Len(mistakes) = Count(alignment, NonMatch)
        /\ reports[1].mistakes = mistakes
        /\ \A k \in 1..Len(mistakes) :
              /\ mistakes[k].type \in NonMatch
              /\ mistakes[k].reference.kind = "dict"
                    => mistakes[k].reference.position < Len(reference)
              /\ mistakes[k].actual.kind = "dict"
                    => mistakes[k].actual.position < Len(actual)
              /\ mistakes[k] = ExpectedMistake(reference, actual, alignment, k)

C5_Witness ==
    /\ FirstCall
    /\ Len(mistakes) >= 2
    /\ \E k \in 1..Len(mistakes) :
          /\ mistakes[k].reference.kind = "dict"
          /\ mistakes[k].actual.kind = "dict"
          /\ mistakes[k].reference.position # mistakes[k].actual.position
    /\ \E k \in 1..Len(mistakes) : mistakes[k].type = INSERTION

C9_Stateless ==
    (pc = "evaluator" /\ Len(reference) >= 1) =>
        /\ Len(mistakes) + matches = Len(alignment)
        /\ \A k \in 1..Len(reports) :
              LET fresh == Compare(reference, actual, <<>>, 0)
              IN  reports[k] = [accuracy |-> fresh.accuracy, mistakes |-> fresh.mistakes]

(* C10: in a single evaluation of a non-empty reference the match count     *)
(* reaches len(reference) + |len(reference) - len(actual)| exactly when     *)
(* there are no mistakes, which is exactly when the token lists are equal;  *)
(* equal lists score 100.                                                   *)
C10_PerfectScore ==
    (FirstCall /\ Len(reference) >= 1) =>
        /\ raised = "none"
        /\ (matches = Distance(reference, actual)) <=> (mistakes = <<>>)
        /\ (mistakes = <<>>) <=> (reference = actual)
        /\ reference = actual => reports[1].accuracy = 10000
        /\ reports[1].accuracy = 10000 => reference = actual

C10_Witness ==
    /\ FirstCall
    /\ reports # <<>>
    /\ Len(reference) >= 3
    /\ reference = actual
    /\ mistakes = <<>>
    /\ reports[1].accuracy = 10000

----------------------------------------------------------------------------
(* Properties of create_feedback (Spec)                                     *)

(* C7: every Report compare() produced for a non-empty reference passes     *)
(* FeedbackResponse validation and is the response body.                    *)
C7_ReportReturned ==
    (evaluated /\ Len(reference) >= 1 /\ Len(reports) = 1) =>
        /\ pc = "returned"
        /\ raised = "none"
        /\ response = reports[1]

(* C8: every failed lookup ends in an HTTPException without an evaluator,   *)
(* and an evaluator exists only after a successful lookup.                  *)
C8_LookupFailures ==
    /\ upstream.kind \in {"transport_error", "status_error", "bad_body"}
          => raised = "HTTPException" /\ ~evaluated
    /\ evaluated => upstream.kind = "ok"

====
